---- MODULE Spec2Model ----
(***************************************************************************)
(* Velo trading system: the request-triggered daily collector              *)
(* (src/main.py, collect_data) and the batch backfill job                  *)
(* (src/backfill.py, main) over the (date x symbol x timeframe) grid,      *)
(* both appending to one destination table.                                *)
(*                                                                         *)
(* Dates are day numbers since the epoch; millisecond timestamps are       *)
(* integers; microsecond values exceed 32 bits and are kept as two-limb    *)
(* integers [hi, lo] with value hi * 10^6 + lo.                            *)
(***************************************************************************)
EXTENDS Integers, Sequences, FiniteSets, TLC

VARIABLES
    today,      \* the UTC calendar day the wall clock shows (day number)
    store,      \* the destination table: the sequence of rows appended so far
    budget,     \* what the environment may still do: midnight crossings, raised errors, non-empty upstream answers, further runs
    cfg,        \* the configuration of the deployment: symbols, timeframes, whether invocations may overlap in time
    archive,    \* the files the archive has published: a set of [unit, file]
    inv,        \* collect_data: the locals of each invocation
    job         \* backfill main(): the locals of the job

vars == <<today, store, budget, cfg, archive, inv, job>>

----------------------------------------------------------------------------
(* Bounds of the model *)

NSym == 2
NTf == 1
NInv == 1
MaxRuns == 2
MaxDaysArg == 2
MaxTicks == 1
MaxFaults == 1
MaxData == 2
MaxBars == 2
FirstDay == 10
NOverlap == 2

(* Program constants *)

SYMBOLS == <<"BTC/USDT:USDT", "ETH/USDT:USDT", "SOL/USDT:USDT", "BNB/USDT:USDT">>
TIMEFRAMES == <<"1m", "5m", "15m", "1h">>
BARS_PER_DAY == [tf \in {"1m", "5m", "15m", "1h"} |->
                    CASE tf = "1m" -> 1440 [] tf = "5m" -> 288
                      [] tf = "15m" -> 96 [] tf = "1h" -> 24]
DaysDefault == 1
DaysCap == 7
LimitMargin == 10
DayMs == 86400000
StatusOk == 200
StatusPartial == 207

BACKFILL_SYMBOLS == <<"BTCUSDT", "ETHUSDT", "SOLUSDT", "BNBUSDT">>

(* The part of the grid a behaviour traverses: the first NSym symbols and    *)
(* NTf consecutive timeframes.                                               *)
Min(a, b) == IF a <= b THEN a ELSE b
Symbols == SubSeq(SYMBOLS, 1, Min(NSym, Len(SYMBOLS)))
TimeframeWindows ==
    {SubSeq(TIMEFRAMES, i, i + Min(NTf, Len(TIMEFRAMES)) - 1) :
        i \in 1..(Len(TIMEFRAMES) - Min(NTf, Len(TIMEFRAMES)) + 1)}
Invocations == 1..NInv

----------------------------------------------------------------------------
(* Two-limb integers: the int64 microsecond values of the frames *)

Limb == 1000 * 1000

Wide(n) == [hi |-> n \div Limb, lo |-> n % Limb]

WideMul(w, k) ==
    LET p == w.lo * k
    IN  [hi |-> w.hi * k + p \div Limb, lo |-> p % Limb]

WideAdd(a, b) ==
    LET s == a.lo + b.lo
    IN  [hi |-> a.hi + b.hi + s \div Limb, lo |-> s % Limb]

WideSub(a, b) ==
    LET d == a.lo - b.lo
    IN  [hi |-> a.hi - b.hi + d \div Limb, lo |-> d % Limb]

WideLe(a, b) == a.hi < b.hi \/ (a.hi = b.hi /\ a.lo <= b.lo)

WideLt(a, b) == a.hi < b.hi \/ (a.hi = b.hi /\ a.lo < b.lo)

----------------------------------------------------------------------------
(* Strings as the code reads them *)

Chars(s) ==
    CASE s = "1m" -> <<"1", "m">>
      [] s = "5m" -> <<"5", "m">>
      [] s = "15m" -> <<"1", "5", "m">>
      [] s = "1h" -> <<"1", "h">>

RECURSIVE Remove(_, _)
Remove(cs, c) ==
    IF cs = <<>> THEN <<>>
    ELSE IF Head(cs) = c THEN Remove(Tail(cs), c)
    ELSE <<Head(cs)>> \o Remove(Tail(cs), c)

Digit(c) ==
    CASE c = "0" -> 0 [] c = "1" -> 1 [] c = "2" -> 2 [] c = "3" -> 3
      [] c = "4" -> 4 [] c = "5" -> 5 [] c = "6" -> 6 [] c = "7" -> 7
      [] c = "8" -> 8 [] c = "9" -> 9

RECURSIVE ParseInt(_)
ParseInt(cs) ==
    IF cs = <<>> THEN 0
    ELSE ParseInt(SubSeq(cs, 1, Len(cs) - 1)) * 10 + Digit(cs[Len(cs)])

Contains(cs, c) == \E i \in 1..Len(cs) : cs[i] = c

(* main.py:24-26 *)
clean_symbol(symbol) ==
    CASE symbol = "BTC/USDT:USDT" -> "BTCUSDT"
      [] symbol = "ETH/USDT:USDT" -> "ETHUSDT"
      [] symbol = "SOL/USDT:USDT" -> "SOLUSDT"
      [] symbol = "BNB/USDT:USDT" -> "BNBUSDT"
      [] OTHER -> symbol

(* strftime('%Y-%m-%d') of a day of January 1970 *)
DateStr(d) == <<1970, 1, d + 1>>

----------------------------------------------------------------------------
(* The destination table and the upstream exchange *)

(* main.py:62-70: the count of the rows of one unit *)
CountRows(table, symbol, tf, date) ==
    Cardinality({i \in 1..Len(table) :
        /\ table[i].symbol = symbol
        /\ table[i].timeframe = tf
        /\ table[i].date = date})

RECURSIVE SortedSeq(_)
SortedSeq(S) ==
    IF S = {} THEN <<>>
    ELSE LET m == CHOOSE x \in S : \A y \in S : x <= y
         IN  <<m>> \o SortedSeq(S \ {m})

(* Offsets from the requested start of the bars the exchange may answer with: *)
(* the last millisecond before the day, its first and last, the first after.  *)
BarOffsets == {0 - 1, 0, DayMs - 1, DayMs}

Bar(t) == <<t, 1, 1, 1, 1, 1>>

(* The answers of exchange.fetch_ohlcv(symbol, tf, since, limit): ordered     *)
(* 6-tuples, at most `limit` of them, not bound to the requested day.         *)
FetchAnswers(since, limit) ==
    {[i \in 1..Cardinality(S) |-> Bar(since + SortedSeq(S)[i])] :
        S \in {T \in SUBSET BarOffsets : Cardinality(T) <= MaxBars /\ Cardinality(T) <= limit}}

----------------------------------------------------------------------------
(* collect_data (src/main.py) *)

(* request.args: without 'days', or with an integer 'days' *)
NoDays == <<>>
DaysArgs == {NoDays} \cup {<<n>> : n \in (0 - 1)..MaxDaysArg}

(* main.py:34-36 *)
DaysBack(d) == IF d = NoDays THEN DaysDefault ELSE Min(d[1], DaysCap)

(* main.py:45 *)
TotalCount(days_back) == Len(cfg.symbols) * Len(cfg.timeframes) * days_back

(* main.py:49-52 *)
StartMs(target_date) == target_date * DayMs
EndMs(start_ms) == start_ms + DayMs

ShouldSkipOnSecondRow(existing_rows) == existing_rows > 1

(* main.py:72 *)
ShouldSkip(existing_rows) == existing_rows > 0

InWindowClosed(t, start_ms, end_ms) == t >= start_ms /\ t <= end_ms

(* main.py:87 *)
InWindow(t, start_ms, end_ms) == t >= start_ms /\ t < end_ms

RECURSIVE Clip(_, _, _)
Clip(ohlcv, start_ms, end_ms) ==
    IF ohlcv = <<>> THEN <<>>
    ELSE IF InWindow(Head(ohlcv)[1], start_ms, end_ms)
         THEN <<Head(ohlcv)>> \o Clip(Tail(ohlcv), start_ms, end_ms)
         ELSE Clip(Tail(ohlcv), start_ms, end_ms)

(* main.py:94 *)
TfMinutes(tf) ==
    ParseInt(Remove(Remove(Chars(tf), "m"), "h"))
        * (IF Contains(Chars(tf), "m") THEN 1 ELSE 60)

(* main.py:93 *)
OpenTimeUs(t) == WideMul(Wide(t), 1000)

(* main.py:95: open_time + tf_minutes * 60 * 1000000 *)
CloseTimeUs(open_time, tf) ==
    WideAdd(open_time, WideMul(WideMul(Wide(TfMinutes(tf) * 60), 1000), 1000))

(* main.py:93-107; a nullable float column holds <<x>>, or <<>> for null *)
LiveRow(bar, symbol_clean, tf, date_str) ==
    [open_time |-> OpenTimeUs(bar[1]),
     open |-> <<bar[2]>>, high |-> <<bar[3]>>, low |-> <<bar[4]>>, close |-> <<bar[5]>>,
     volume |-> <<bar[6]>>,
     close_time |-> CloseTimeUs(OpenTimeUs(bar[1]), tf),
     quote_volume |-> <<0>>, trades |-> 0, taker_buy_base |-> <<0>>, taker_buy_quote |-> <<0>>,
     symbol |-> symbol_clean, timeframe |-> tf, date |-> date_str]

LiveFrame(df, symbol_clean, tf, date_str) ==
    [i \in 1..Len(df) |-> LiveRow(df[i], symbol_clean, tf, date_str)]

(* main.py:134 *)
StatusCode(success_count, total_count) ==
    IF success_count = total_count THEN StatusOk ELSE StatusPartial

RECURSIVE Concat(_)
Concat(frames) ==
    IF frames = <<>> THEN <<>> ELSE Head(frames) \o Concat(Tail(frames))

Idle == [pc |-> "idle", days_back |-> 0, success_count |-> 0, total_count |-> 0,
         all_data |-> <<>>, logs |-> <<>>, day_offset |-> 0, target_date |-> 0,
         si |-> 0, ti |-> 0, existing_rows |-> 0, events |-> <<>>, trace |-> <<>>,
         load |-> "none", status |-> 0, day0 |-> 0, store0 |-> 0]

Running(p) == inv[p].pc \in {"day", "check", "fetch", "load"}

symbol_(r) == cfg.symbols[r.si]
tf_(r) == cfg.timeframes[r.ti]
Unit(r) == <<clean_symbol(symbol_(r)), tf_(r), DateStr(r.target_date)>>

(* main.py:48,57,60: the next iteration of the three nested loops *)
Advance(r) ==
    IF r.ti < Len(cfg.timeframes) THEN [r EXCEPT !.ti = @ + 1, !.pc = "check"]
    ELSE IF r.si < Len(cfg.symbols) THEN [r EXCEPT !.si = @ + 1, !.ti = 1, !.pc = "check"]
    ELSE IF r.day_offset < r.days_back THEN [r EXCEPT !.day_offset = @ + 1, !.pc = "day"]
    ELSE [r EXCEPT !.pc = "load"]

(* The record of one visited unit: what the lookup counted (-1: it raised),   *)
(* what the exchange answered, how the unit ended, how many rows it gave.     *)
Visit(r, outcome, answer, n) ==
    Append(r.trace, [unit |-> Unit(r), di |-> r.day_offset, existing |-> r.existing_rows,
                     answer |-> answer, outcome |-> outcome, rows |-> n])

JobRunning == job.pc \in {"dates", "unit", "load"}

(* One run at a time, unless the deployment lets invocations overlap *)
MayStart == cfg.overlap \/ (~JobRunning /\ \A q \in Invocations : ~Running(q))

CaughtAndStopped(r) ==
    [r EXCEPT !.logs = Append(@, <<"error">>),
              !.trace = Visit(r, "FETCH_FAILED", <<>>, 0),
              !.pc = "load"]

CaughtAsSkipped(r) ==
    Advance([r EXCEPT !.logs = Append(@, <<"error">>),
                      !.success_count = @ + 1,
                      !.trace = Visit(r, "SKIPPED", <<>>, 0)])

(* main.py:115-116 *)
Caught(r) ==
    Advance([r EXCEPT !.logs = Append(@, <<"error">>),
                      !.trace = Visit(r, "FETCH_FAILED", <<>>, 0)])

(* main.py:33-46 *)
Start(p, d) ==
    /\ inv[p].pc \in {"idle", "done", "crashed"}
    /\ MayStart
    /\ budget.runs > 0
    /\ budget' = [budget EXCEPT !.runs = @ - 1]
    /\ LET days_back == DaysBack(d)
       IN  inv' = [inv EXCEPT ![p] =
                [Idle EXCEPT
                    !.pc = IF days_back >= 1 THEN "day" ELSE "load",
                    !.days_back = days_back,
                    !.logs = <<<<"started">>, <<"days", days_back>>>>,
                    !.total_count = TotalCount(days_back),
                    !.day_offset = 1,
                    !.store0 = Len(store)]]
    /\ UNCHANGED <<today, store, cfg, archive, job>>

(* main.py:38-41: a client cannot be initialised; the exception leaves the handler *)
StartRaises(p, d) ==
    /\ inv[p].pc \in {"idle", "done", "crashed"}
    /\ MayStart
    /\ budget.runs > 0 /\ budget.faults > 0
    /\ budget' = [budget EXCEPT !.runs = @ - 1, !.faults = @ - 1]
    /\ inv' = [inv EXCEPT ![p] = [Idle EXCEPT !.pc = "crashed", !.days_back = DaysBack(d)]]
    /\ UNCHANGED <<today, store, cfg, archive, job>>

(* main.py:48-55 *)
NextDay(p) ==
    /\ inv[p].pc = "day"
    /\ LET target_date == today - inv[p].day_offset
       IN  inv' = [inv EXCEPT ![p] =
                [@ EXCEPT !.target_date = target_date,
                          !.day0 = IF inv[p].day_offset = 1 THEN today ELSE @,
                          !.logs = Append(@, <<"date", DateStr(target_date)>>),
                          !.si = 1, !.ti = 1, !.pc = "check"]]
    /\ UNCHANGED <<today, store, budget, cfg, archive, job>>

(* main.py:61-77 *)
CheckExists(p) ==
    /\ inv[p].pc = "check"
    /\ LET r == inv[p]
           u == Unit(r)
           existing_rows == CountRows(store, u[1], u[2], u[3])
       IN  inv' = [inv EXCEPT ![p] =
                IF ShouldSkip(existing_rows)
                THEN Advance([r EXCEPT
                        !.existing_rows = existing_rows,
                        !.logs = Append(@, <<"exists", u[1], u[2], existing_rows>>),
                        !.success_count = @ + 1,
                        !.trace = Visit([r EXCEPT !.existing_rows = existing_rows],
                                        "SKIPPED", <<>>, 0)])
                ELSE [r EXCEPT
                        !.existing_rows = existing_rows,
                        !.logs = Append(@, <<"fetching", u[1], u[2]>>),
                        !.pc = "fetch"]]
    /\ UNCHANGED <<today, store, budget, cfg, archive, job>>

(* main.py:69,115-116: the lookup raises *)
CheckRaises(p) ==
    /\ inv[p].pc = "check"
    /\ budget.faults > 0
    /\ budget' = [budget EXCEPT !.faults = @ - 1]
    /\ inv' = [inv EXCEPT ![p] = Caught([@ EXCEPT !.existing_rows = 0 - 1])]
    /\ UNCHANGED <<today, store, cfg, archive, job>>

(* main.py:79-113 *)
Fetched(r, ohlcv) ==
    LET u == Unit(r)
        start_ms == StartMs(r.target_date)
        end_ms == EndMs(start_ms)
        called == [r EXCEPT !.events = Append(@, <<"fetch", symbol_(r), tf_(r), start_ms,
                                                    BARS_PER_DAY[tf_(r)] + LimitMargin>>)]
        df == Clip(ohlcv, start_ms, end_ms)
    IN  IF ohlcv = <<>>
        THEN Advance([called EXCEPT !.logs = Append(@, <<"no_data_returned">>),
                                    !.trace = Visit(r, "NO_DATA", ohlcv, 0)])
        ELSE IF Len(df) = 0
        THEN Advance([called EXCEPT !.logs = Append(@, <<"no_data_for_range">>),
                                    !.trace = Visit(r, "NO_DATA", ohlcv, 0)])
        ELSE Advance([called EXCEPT
                !.all_data = Append(@, LiveFrame(df, u[1], u[2], u[3])),
                !.logs = Append(@, <<"collected", Len(df)>>),
                !.success_count = @ + 1,
                !.events = Append(@, <<"sleep">>),
                !.trace = Visit(r, "FETCHED", ohlcv, Len(df))])

FetchReturns(p) ==
    /\ inv[p].pc = "fetch"
    /\ \E ohlcv \in FetchAnswers(StartMs(inv[p].target_date),
                                  BARS_PER_DAY[tf_(inv[p])] + LimitMargin) :
        /\ IF ohlcv = <<>> THEN UNCHANGED budget
           ELSE /\ budget.data > 0
                /\ budget' = [budget EXCEPT !.data = @ - 1]
        /\ inv' = [inv EXCEPT ![p] = Fetched(inv[p], ohlcv)]
    /\ UNCHANGED <<today, store, cfg, archive, job>>

(* main.py:80,115-116: the exchange call raises *)
FetchRaises(p) ==
    /\ inv[p].pc = "fetch"
    /\ budget.faults > 0
    /\ budget' = [budget EXCEPT !.faults = @ - 1]
    /\ LET r == inv[p]
           called == [r EXCEPT !.events = Append(@, <<"fetch", symbol_(r), tf_(r),
                                    StartMs(r.target_date), BARS_PER_DAY[tf_(r)] + LimitMargin>>)]
       IN  inv' = [inv EXCEPT ![p] = Caught(called)]
    /\ UNCHANGED <<today, store, cfg, archive, job>>

(* main.py:130-134 *)
Return(r) ==
    [r EXCEPT !.logs = Append(@, <<"completed", r.success_count, r.total_count>>),
              !.status = StatusCode(r.success_count, r.total_count),
              !.pc = "done"]

(* main.py:118: nothing was collected *)
NothingToLoad(p) ==
    /\ inv[p].pc = "load"
    /\ inv[p].all_data = <<>>
    /\ inv' = [inv EXCEPT ![p] = Return(@)]
    /\ UNCHANGED <<today, store, budget, cfg, archive, job>>

(* main.py:118-126 *)
LoadAll(p) ==
    /\ inv[p].pc = "load"
    /\ inv[p].all_data # <<>>
    /\ LET combined == Concat(inv[p].all_data)
       IN  /\ store' = store \o combined
           /\ inv' = [inv EXCEPT ![p] =
                    Return([@ EXCEPT !.logs = Append(@, <<"loaded", Len(combined)>>),
                                     !.load = "ok"])]
    /\ UNCHANGED <<today, budget, cfg, archive, job>>

(* main.py:127-128: the load job raises *)
LoadRaises(p) ==
    /\ inv[p].pc = "load"
    /\ inv[p].all_data # <<>>
    /\ budget.faults > 0
    /\ budget' = [budget EXCEPT !.faults = @ - 1]
    /\ inv' = [inv EXCEPT ![p] =
            Return([@ EXCEPT !.logs = Append(@, <<"load_error">>), !.load = "failed"])]
    /\ UNCHANGED <<today, store, cfg, archive, job>>

(* The wall clock passes UTC midnight *)
Tick ==
    /\ budget.ticks > 0
    /\ budget' = [budget EXCEPT !.ticks = @ - 1]
    /\ today' = today + 1
    /\ UNCHANGED <<store, cfg, archive, inv, job>>

----------------------------------------------------------------------------
(* The archive (data.binance.vision) *)

(* The length of one bar in milliseconds, as the archive publishes it *)
IntervalMs(tf) ==
    CASE tf = "1m" -> 60000 [] tf = "5m" -> 300000
      [] tf = "15m" -> 900000 [] tf = "1h" -> 3600000

DayOf(date_str) == date_str[3] - 1

(* One line of a klines file: 12 cells, each <<x>>, or <<>> when it cannot be  *)
(* parsed as a number. lag is 1 where the file gives the last millisecond of   *)
(* the bar as its close time, 0 where it gives the open time of the next bar.  *)
KlineRow(tf, date_str, k, lag) ==
    LET open_ms == DayOf(date_str) * DayMs + (k - 1) * IntervalMs(tf)
    IN  <<<<open_ms>>, <<1>>, <<1>>, <<1>>, <<1>>, <<1>>,
          <<open_ms + IntervalMs(tf) - lag>>, <<1>>, <<1>>, <<1>>, <<1>>, <<0>>>>

KlineFile(tf, date_str, n, lag) == [k \in 1..n |-> KlineRow(tf, date_str, k, lag)]

SetCell(rows, i, col, cell) == [rows EXCEPT ![i] = [@ EXCEPT ![col] = cell]]

(* The files of one unit the archive may hold *)
GoodFiles(tf, date_str) ==
    {KlineFile(tf, date_str, n, lag) : n \in 1..MaxBars, lag \in {0, 1}}
    \cup {SetCell(KlineFile(tf, date_str, 1, 1), 1, 2, <<>>)}

BadFiles(tf, date_str) ==
    { SetCell(KlineFile(tf, date_str, 1, 1), 1, 9, <<>>),
      SetCell(KlineFile(tf, date_str, 1, 1), 1, 1, <<>>),
      <<SubSeq(KlineRow(tf, date_str, 1, 1), 1, 11)>> }

(* What requests.get(url, timeout=30) meets: no answer, a status without a    *)
(* usable body, or 200 with a body: not an archive, an archive without a      *)
(* member, or an archive whose first member is a file of lines.               *)
NotFound == [kind |-> "http", status |-> 404, body |-> <<>>]

Served(f) == [kind |-> "http", status |-> 200, body |-> <<"zip", f>>]

(* Answers that say nothing of the file: they may differ from call to call *)
TransientAnswers ==
    { [kind |-> "transport", status |-> 0, body |-> <<>>],
      [kind |-> "http", status |-> 500, body |-> <<>>],
      [kind |-> "http", status |-> 200, body |-> <<"notzip">>],
      [kind |-> "http", status |-> 200, body |-> <<"zip">>] }

Published(u) == {a \in archive : a.unit = u}

----------------------------------------------------------------------------
(* download_and_parse_zip (src/backfill.py) *)

IsNotFoundNever(status) == FALSE

(* backfill.py:35 *)
IsNotFound(status) == status = 404

(* backfill.py:37: raise_for_status *)
IsHttpError(status) == status >= 400 /\ status < 600

(* backfill.py:61-62: pd.to_datetime(ms, unit='ms') as microseconds *)
ArchiveTimeUs(cell) == WideMul(Wide(cell[1]), 1000)

(* backfill.py:63-64: pd.to_numeric(errors='coerce') *)
ToNumeric(cell) == cell

(* backfill.py:49-68 *)
ArchiveRow(line, symbol, tf, date_str) ==
    [open_time |-> ArchiveTimeUs(line[1]),
     open |-> ToNumeric(line[2]), high |-> ToNumeric(line[3]), low |-> ToNumeric(line[4]),
     close |-> ToNumeric(line[5]), volume |-> ToNumeric(line[6]),
     close_time |-> ArchiveTimeUs(line[7]),
     quote_volume |-> ToNumeric(line[8]), trades |-> line[9][1],
     taker_buy_base |-> ToNumeric(line[10]), taker_buy_quote |-> ToNumeric(line[11]),
     symbol |-> symbol, timeframe |-> tf, date |-> date_str]

(* backfill.py:40-65: whether extraction and conversion raise *)
ParseRaises(body) ==
    \/ body[1] # "zip"                                   \* zipfile.ZipFile: not an archive
    \/ Len(body) < 2                                      \* z.namelist()[0]
    \/ body[2] = <<>>                                     \* pd.read_csv: no lines
    \/ \E i \in 1..Len(body[2]) :
          \/ Len(body[2][i]) # 12                         \* df.columns = [...]
          \/ body[2][i][1] = <<>> \/ body[2][i][7] = <<>> \* pd.to_datetime
          \/ body[2][i][9] = <<>>                         \* astype(int)

(* backfill.py:29-74: the frame, or None, and whether line 73 is printed *)
download_and_parse_zip(symbol, tf, date_str, resp) ==
    IF resp.kind = "transport" THEN [df |-> <<>>, none |-> TRUE, error |-> TRUE]
    ELSE IF IsNotFound(resp.status) THEN [df |-> <<>>, none |-> TRUE, error |-> FALSE]
    ELSE IF IsHttpError(resp.status) THEN [df |-> <<>>, none |-> TRUE, error |-> TRUE]
    ELSE IF ParseRaises(resp.body) THEN [df |-> <<>>, none |-> TRUE, error |-> TRUE]
    ELSE [df |-> [i \in 1..Len(resp.body[2]) |->
                    ArchiveRow(resp.body[2][i], symbol, tf, date_str)],
          none |-> FALSE, error |-> FALSE]

----------------------------------------------------------------------------
(* main (src/backfill.py) *)

BackfillSymbols == SubSeq(BACKFILL_SYMBOLS, 1, Len(cfg.symbols))

JobIdle == [pc |-> "idle", DAYS_BACK |-> 0, dates |-> <<>>, i |-> 0, si |-> 0, ti |-> 0,
            day_data |-> <<>>, total_files |-> 0, total_rows |-> 0, out |-> <<>>,
            trace |-> <<>>, loads |-> <<>>, prev |-> <<>>, store0 |-> 0, archive0 |-> 0,
            events |-> <<>>]

(* What the archive answered: the file is absent, it failed, or it gave a file;  *)
(* in the trace, served tells an answer that carried the lines of a file.         *)
Upstream(resp) ==
    IF resp = NotFound THEN "not_found"
    ELSE IF resp.kind = "http" /\ resp.status = 200 /\ ~ParseRaises(resp.body) THEN "data"
    ELSE "failed"

JobUnit(j) == <<BackfillSymbols[j.si], cfg.timeframes[j.ti], j.dates[j.i]>>

(* backfill.py:143-156: DAYS_BACK is read from the environment *)
JobStart(n) ==
    /\ job.pc \in {"idle", "done", "crashed"}
    /\ MayStart
    /\ budget.runs > 0
    /\ budget' = [budget EXCEPT !.runs = @ - 1]
    /\ job' = [JobIdle EXCEPT !.pc = "dates", !.DAYS_BACK = n, !.i = 1,
                              !.out = <<<<"started", n>>>>,
                              !.prev = IF job.pc = "done"
                                       THEN <<[dates |-> job.dates,
                                               failed |-> \E k \in 1..Len(job.trace) :
                                                              job.trace[k].upstream = "failed"]>>
                                       ELSE <<>>,
                              !.store0 = Len(store),
                              !.archive0 = Cardinality(archive)]
    /\ UNCHANGED <<today, store, cfg, archive, inv>>

(* backfill.py:159-162: one iteration; each reads the clock *)
GenDate ==
    /\ job.pc = "dates"
    /\ job.i <= job.DAYS_BACK
    /\ job' = [job EXCEPT !.dates = Append(@, DateStr(today - job.i)), !.i = @ + 1]
    /\ UNCHANGED <<today, store, budget, cfg, archive, inv>>

(* backfill.py:164-174: dates[-1] of an empty list raises *)
DatesDone ==
    /\ job.pc = "dates"
    /\ job.i > job.DAYS_BACK
    /\ job' = IF job.dates = <<>>
              THEN [job EXCEPT !.pc = "crashed"]
              ELSE [job EXCEPT !.pc = "unit", !.i = 1, !.si = 1, !.ti = 1,
                               !.out = Append(@, <<"processing", Len(job.dates),
                                                   job.dates[Len(job.dates)], job.dates[1]>>)]
    /\ UNCHANGED <<today, store, budget, cfg, archive, inv>>

(* backfill.py:175-176: the next iteration of the two inner loops *)
JobAdvance(j) ==
    IF j.ti < Len(cfg.timeframes) THEN [j EXCEPT !.ti = @ + 1]
    ELSE IF j.si < Len(BackfillSymbols) THEN [j EXCEPT !.si = @ + 1, !.ti = 1]
    ELSE [j EXCEPT !.pc = "load"]

(* backfill.py:177-182 *)
Downloaded(j, resp) ==
    LET u == JobUnit(j)
        r == download_and_parse_zip(u[1], u[2], u[3], resp)
        printed == IF r.error THEN Append(j.out, <<"error", u[1], u[2], u[3]>>) ELSE j.out
        line == IF ~r.none THEN <<"rows", u[1], u[2], Len(r.df)>> ELSE <<"no_data", u[1], u[2]>>
    IN  JobAdvance([j EXCEPT
            !.day_data = IF ~r.none THEN Append(@, r.df) ELSE @,
            !.out = Append(printed, line),
            !.events = Append(@, <<"get", u[1], u[2], u[3]>>),
            !.trace = Append(@, [unit |-> u, di |-> j.i, upstream |-> Upstream(resp),
                                 served |-> resp.kind = "http" /\ resp.status = 200
                                                /\ Len(resp.body) = 2,
                                 none |-> r.none, error |-> r.error, line |-> line[1],
                                 rows |-> Len(r.df)])])

(* The file of this unit is not published (yet) *)
DownloadNotFound ==
    /\ job.pc = "unit"
    /\ Published(JobUnit(job)) = {}
    /\ job' = Downloaded(job, NotFound)
    /\ UNCHANGED <<today, store, budget, cfg, archive, inv>>

(* The file of this unit was published before: it is served as it was *)
DownloadPublished ==
    /\ job.pc = "unit"
    /\ \E a \in Published(JobUnit(job)) : job' = Downloaded(job, Served(a.file))
    /\ UNCHANGED <<today, store, budget, cfg, archive, inv>>

(* The file of this unit is published by now, well-formed *)
DownloadData ==
    /\ job.pc = "unit"
    /\ Published(JobUnit(job)) = {}
    /\ budget.data > 0
    /\ budget' = [budget EXCEPT !.data = @ - 1]
    /\ \E f \in GoodFiles(JobUnit(job)[2], JobUnit(job)[3]) :
          /\ archive' = archive \cup {[unit |-> JobUnit(job), file |-> f]}
          /\ job' = Downloaded(job, Served(f))
    /\ UNCHANGED <<today, store, cfg, inv>>

(* The file of this unit is published by now, malformed *)
DownloadBadFile ==
    /\ job.pc = "unit"
    /\ Published(JobUnit(job)) = {}
    /\ budget.faults > 0
    /\ budget' = [budget EXCEPT !.faults = @ - 1]
    /\ \E f \in BadFiles(JobUnit(job)[2], JobUnit(job)[3]) :
          /\ archive' = archive \cup {[unit |-> JobUnit(job), file |-> f]}
          /\ job' = Downloaded(job, Served(f))
    /\ UNCHANGED <<today, store, cfg, inv>>

(* The request fails on the way, whatever the archive holds *)
DownloadFails ==
    /\ job.pc = "unit"
    /\ budget.faults > 0
    /\ budget' = [budget EXCEPT !.faults = @ - 1]
    /\ \E resp \in TransientAnswers : job' = Downloaded(job, resp)
    /\ UNCHANGED <<today, store, cfg, archive, inv>>

(* backfill.py:171-174,191-195: the next date, or the summary *)
JobNextDate(j) ==
    IF j.i < Len(j.dates)
    THEN [j EXCEPT !.i = @ + 1, !.si = 1, !.ti = 1, !.day_data = <<>>, !.pc = "unit"]
    ELSE [j EXCEPT !.pc = "done",
                   !.out = Append(@, <<"complete", j.total_files, j.total_rows>>)]

(* backfill.py:184: no file of this date was parsed *)
NoDayData ==
    /\ job.pc = "load"
    /\ job.day_data = <<>>
    /\ job' = JobNextDate(job)
    /\ UNCHANGED <<today, store, budget, cfg, archive, inv>>

(* backfill.py:184-189,113-121 *)
LoadDay ==
    /\ job.pc = "load"
    /\ job.day_data # <<>>
    /\ LET combined == Concat(job.day_data)
           rows == Len(combined)
       IN  /\ store' = store \o combined
           /\ job' = JobNextDate([job EXCEPT
                    !.total_files = @ + Len(job.day_data),
                    !.total_rows = @ + rows,
                    !.loads = Append(@, [date |-> job.dates[job.i], units |-> Len(job.day_data),
                                         rows |-> rows]),
                    !.out = Append(@, <<"loaded", rows>>)])
    /\ UNCHANGED <<today, budget, cfg, archive, inv>>

(* backfill.py:186: the load job raises; nothing in main catches it *)
LoadDayRaises ==
    /\ job.pc = "load"
    /\ job.day_data # <<>>
    /\ budget.faults > 0
    /\ budget' = [budget EXCEPT !.faults = @ - 1]
    /\ job' = [job EXCEPT !.pc = "crashed"]
    /\ UNCHANGED <<today, store, cfg, archive, inv>>

----------------------------------------------------------------------------

Init ==
    /\ today = FirstDay
    /\ store = <<>>
    /\ budget = [ticks |-> MaxTicks, faults |-> MaxFaults, data |-> MaxData, runs |-> MaxRuns]
    /\ cfg \in {[symbols |-> Symbols, timeframes |-> w, overlap |-> FALSE] : w \in TimeframeWindows}
    /\ archive = {}
    /\ inv = [p \in Invocations |-> Idle]
    /\ job = JobIdle

Next ==
    \/ \E p \in Invocations, d \in DaysArgs : Start(p, d)
    \/ \E p \in Invocations, d \in DaysArgs : StartRaises(p, d)
    \/ \E p \in Invocations : NextDay(p)
    \/ \E p \in Invocations : CheckExists(p)
    \/ \E p \in Invocations : CheckRaises(p)
    \/ \E p \in Invocations : FetchReturns(p)
    \/ \E p \in Invocations : FetchRaises(p)
    \/ \E p \in Invocations : NothingToLoad(p)
    \/ \E p \in Invocations : LoadAll(p)
    \/ \E p \in Invocations : LoadRaises(p)
    \/ Tick

Spec == Init /\ [][Next]_vars

DaysBackEnv == 0..MaxDaysArg

NextBackfill ==
    \/ \E n \in DaysBackEnv : JobStart(n)
    \/ GenDate
    \/ DatesDone
    \/ DownloadNotFound
    \/ DownloadPublished
    \/ DownloadData
    \/ DownloadBadFile
    \/ DownloadFails
    \/ NoDayData
    \/ LoadDay
    \/ LoadDayRaises
    \/ Tick

SpecBackfill == Init /\ [][NextBackfill]_vars

(* One run of either entry point *)
InitOnce ==
    /\ today = FirstDay
    /\ store = <<>>
    /\ budget = [ticks |-> MaxTicks, faults |-> MaxFaults, data |-> MaxData, runs |-> 1]
    /\ cfg \in {[symbols |-> Symbols, timeframes |-> w, overlap |-> FALSE] : w \in TimeframeWindows}
    /\ archive = {}
    /\ inv = [p \in Invocations |-> Idle]
    /\ job = JobIdle

NextEither == Next \/ NextBackfill

SpecOnce == InitOnce /\ [][NextEither]_vars

(* Invocations of the collector that overlap in time: the service handles     *)
(* NOverlap requests at once, each with locals of its own, all on the same    *)
(* destination table and within one calendar day.                             *)
InitOverlap ==
    /\ today = FirstDay
    /\ store = <<>>
    /\ budget = [ticks |-> 0, faults |-> MaxFaults, data |-> MaxData, runs |-> NOverlap]
    /\ cfg \in {[symbols |-> Symbols, timeframes |-> w, overlap |-> TRUE] : w \in TimeframeWindows}
    /\ archive = {}
    /\ inv = [p \in 1..NOverlap |-> Idle]
    /\ job = JobIdle

(* The scheduler's request carries no 'days' *)
ScheduledArgs == {NoDays}

NextOverlap ==
    \/ \E p \in DOMAIN inv, d \in ScheduledArgs : Start(p, d)
    \/ \E p \in DOMAIN inv, d \in ScheduledArgs : StartRaises(p, d)
    \/ \E p \in DOMAIN inv : NextDay(p)
    \/ \E p \in DOMAIN inv : CheckExists(p)
    \/ \E p \in DOMAIN inv : CheckRaises(p)
    \/ \E p \in DOMAIN inv : FetchReturns(p)
    \/ \E p \in DOMAIN inv : FetchRaises(p)
    \/ \E p \in DOMAIN inv : NothingToLoad(p)
    \/ \E p \in DOMAIN inv : LoadAll(p)
    \/ \E p \in DOMAIN inv : LoadRaises(p)

SpecOverlap == InitOverlap /\ [][NextOverlap]_vars

----------------------------------------------------------------------------
(* Properties *)

Range(f) == {f[i] : i \in DOMAIN f}

IsFetched(e) == e.outcome = "FETCHED"
IsParsed(e) == ~e.none

DayStartUs(date_str) == WideMul(Wide(DayOf(date_str) * DayMs), 1000)
DayEndUs(date_str) == WideMul(Wide((DayOf(date_str) + 1) * DayMs), 1000)

(* The units the exchange was asked for in a run *)
AskedUnits(r) ==
    {<<clean_symbol(ev[2]), ev[3], ev[4]>> : ev \in {x \in Range(r.events) : x[1] = "fetch"}}

RowUnits(frames) == {<<row.symbol, row.timeframe, row.date>> : row \in Range(Concat(frames))}

NominalUs(tf) ==
    CASE tf = "1m" -> [hi |-> 60, lo |-> 0] [] tf = "5m" -> [hi |-> 300, lo |-> 0]
      [] tf = "15m" -> [hi |-> 900, lo |-> 0] [] tf = "1h" -> [hi |-> 3600, lo |-> 0]

(* C1: a second run of the backfill job over the same window, with the same    *)
(* files upstream and no failed request in either run, appends no row, and no  *)
(* unit the destination already holds is downloaded again.                     *)
C1_SecondRunAddsNothing ==
    ( /\ job.pc = "done"
      /\ job.prev = <<[dates |-> job.dates, failed |-> FALSE]>>
      /\ Cardinality(archive) = job.archive0
      /\ \A k \in 1..Len(job.trace) : job.trace[k].upstream # "failed" )
    => /\ Len(store) = job.store0
       /\ \A k \in 1..Len(job.trace) :
            LET u == job.trace[k].unit
            IN  CountRows(SubSeq(store, 1, job.store0), u[1], u[2], u[3]) = 0

(* C2: in the collector, a unit whose lookup counts at least one stored row is *)
(* skipped: the exchange is not asked for it in that run, no row of it is in   *)
(* the batch, and it counts as a success; the lookup counts the rows earlier   *)
(* runs appended.                                                              *)
C2_ExistingUnitSkipped ==
    \A p \in Invocations :
        LET r == inv[p]
        IN  /\ \A k \in 1..Len(r.trace) :
                 LET e == r.trace[k]
                 IN  /\ (Running(p) /\ e.existing >= 0)
                            => e.existing = CountRows(store, e.unit[1], e.unit[2], e.unit[3])
                     /\ e.existing > 0 =>
                            /\ e.outcome = "SKIPPED"
                            /\ e.rows = 0
                            /\ <<e.unit[1], e.unit[2], StartMs(DayOf(e.unit[3]))>> \notin AskedUnits(r)
                            /\ e.unit \notin RowUnits(r.all_data)
            /\ r.success_count =
                 Cardinality({k \in 1..Len(r.trace) : r.trace[k].outcome \in {"SKIPPED", "FETCHED"}})

C2_Witness ==
    \E p \in Invocations : \E k \in 1..Len(inv[p].trace) :
        /\ inv[p].trace[k].existing > 0
        /\ inv[p].trace[k].outcome = "SKIPPED"
        /\ inv[p].pc = "done"

(* C3: the collector returns 200 only when every unit it visited ended LOADED  *)
(* (collected and appended to the destination) or SKIPPED.                     *)
C3_OkOnlyIfAllLoadedOrSkipped ==
    \A p \in Invocations :
        (inv[p].pc = "done" /\ inv[p].status = StatusOk)
        => \A k \in 1..Len(inv[p].trace) :
              \/ inv[p].trace[k].outcome = "SKIPPED"
              \/ inv[p].trace[k].outcome = "FETCHED" /\ inv[p].load = "ok"

(* C4: a 404 from the archive gives None without the error line, the unit is   *)
(* reported as no data, and the batch of the date holds exactly the frames of  *)
(* the units that were parsed.                                                 *)
C4_NotFoundIsNoData ==
    /\ \A k \in 1..Len(job.trace) :
          job.trace[k].upstream = "not_found"
          => /\ job.trace[k].none
             /\ ~job.trace[k].error
             /\ job.trace[k].line = "no_data"
             /\ job.trace[k].rows = 0
    /\ Cardinality({i \in 1..Len(job.out) : job.out[i][1] = "error"})
          = Cardinality({k \in 1..Len(job.trace) : job.trace[k].error})
    /\ job.pc \in {"unit", "load"}
          => Len(job.day_data)
               = Cardinality({k \in 1..Len(job.trace) :
                                 job.trace[k].di = job.i /\ ~job.trace[k].none})

C4_Witness ==
    \E k \in 1..Len(job.trace) :
        /\ job.trace[k].upstream = "not_found"
        /\ job.pc = "load"
        /\ job.day_data # <<>>

(* C5: what the traversal of the backfill job sees of a failed download (the   *)
(* returned value and its line for the unit) differs from what it sees of a    *)
(* 404.                                                                        *)
C5_FailureDistinctFromNotFound ==
    \A k1, k2 \in 1..Len(job.trace) :
        (job.trace[k1].upstream = "failed" /\ job.trace[k2].upstream = "not_found")
        => <<job.trace[k1].none, job.trace[k1].line>> # <<job.trace[k2].none, job.trace[k2].line>>

(* C6: every row of the collector's batch lies in the UTC day of its unit,     *)
(* each collected unit gives exactly the bars of the answer that lie in that   *)
(* day, and a unit whose bars all lie outside gives no frame.                  *)
C6_RowsWithinDay ==
    \A p \in Invocations :
        LET r == inv[p]
            got == SelectSeq(r.trace, IsFetched)
        IN  /\ \A row \in Range(Concat(r.all_data)) :
                 /\ WideLe(DayStartUs(row.date), row.open_time)
                 /\ WideLt(row.open_time, DayEndUs(row.date))
            /\ \A k \in 1..Len(r.trace) :
                 LET e == r.trace[k]
                     start == DayOf(e.unit[3]) * DayMs
                     kept == {i \in 1..Len(e.answer) :
                                 start <= e.answer[i][1] /\ e.answer[i][1] < start + DayMs}
                 IN  e.outcome \in {"FETCHED", "NO_DATA"}
                     => /\ e.rows = Cardinality(kept)
                        /\ (e.outcome = "FETCHED") = (kept # {})
            /\ Len(r.all_data) = Len(got)
            /\ \A j \in 1..Len(r.all_data) :
                 /\ Len(r.all_data[j]) = got[j].rows
                 /\ \A row \in Range(r.all_data[j]) :
                        <<row.symbol, row.timeframe, row.date>> = got[j].unit

C6_Witness ==
    \E p \in Invocations : \E k \in 1..Len(inv[p].trace) :
        /\ inv[p].trace[k].outcome = "FETCHED"
        /\ Len(inv[p].trace[k].answer) > inv[p].trace[k].rows
        /\ \E k2 \in 1..Len(inv[p].trace) :
              /\ inv[p].trace[k2].outcome = "NO_DATA"
              /\ inv[p].trace[k2].answer # <<>>

(* C7: in every row handed to the loader, close_time - open_time is the        *)
(* nominal length of the row's timeframe in microseconds.                      *)
C7_NominalDuration ==
    \A row \in Range(store) \cup Range(Concat(job.day_data))
               \cup UNION {Range(Concat(inv[p].all_data)) : p \in Invocations} :
        WideSub(row.close_time, row.open_time) = NominalUs(row.timeframe)

(* C8: a failed fetch or lookup of one unit does not end the traversal: every  *)
(* unit of the grid is visited, the frames collected so far stay in the batch  *)
(* as they were, and the units with data are appended when the load succeeds.  *)
C8_FailureIsolated ==
    /\ \A p \in Invocations :
          LET r == inv[p]
              got == SelectSeq(r.trace, IsFetched)
          IN  /\ Len(r.all_data) = Len(got)
              /\ \A j \in 1..Len(got) :
                    /\ Len(r.all_data[j]) = got[j].rows
                    /\ r.all_data[j][1].symbol = got[j].unit[1]
                    /\ r.all_data[j][1].timeframe = got[j].unit[2]
                    /\ r.all_data[j][1].date = got[j].unit[3]
              /\ r.pc = "done" =>
                    /\ Len(r.trace) = (IF r.days_back >= 1 THEN r.days_back ELSE 0)
                                        * Len(cfg.symbols) * Len(cfg.timeframes)
                    /\ r.load = "ok" =>
                          \A j \in 1..Len(got) :
                              CountRows(store, got[j].unit[1], got[j].unit[2], got[j].unit[3])
                                  >= got[j].rows
    /\ LET parsed == SelectSeq(job.trace, IsParsed)
           perday == Len(BackfillSymbols) * Len(cfg.timeframes)
       IN  /\ job.pc = "done" =>
                /\ Len(job.trace) = Len(job.dates) * perday
                /\ \A j \in 1..Len(parsed) :
                      CountRows(store, parsed[j].unit[1], parsed[j].unit[2], parsed[j].unit[3])
                          >= parsed[j].rows
           /\ (job.pc = "crashed" /\ job.dates # <<>>) => Len(job.trace) = job.i * perday
           /\ job.pc = "load" => Len(job.trace) = job.i * perday

C8_Witness ==
    /\ \E p \in Invocations :
          /\ inv[p].pc = "done"
          /\ inv[p].load = "ok"
          /\ \E k1, k2, k3 \in 1..Len(inv[p].trace) :
                /\ k1 < k2 /\ k2 < k3
                /\ inv[p].trace[k1].outcome = "FETCHED"
                /\ inv[p].trace[k2].outcome = "FETCH_FAILED"
                /\ inv[p].trace[k3].outcome = "FETCHED"

(* C9: a finished run of the collector over N >= 1 days has visited exactly    *)
(* the N calendar days before the day of its first clock read, and every       *)
(* (date, symbol, timeframe) of them exactly once.                             *)
C9_EachUnitOnce ==
    \A p \in Invocations :
        LET r == inv[p]
        IN  (r.pc = "done" /\ r.days_back >= 1)
            => /\ {r.trace[k].unit[3] : k \in 1..Len(r.trace)}
                    = {DateStr(r.day0 - n) : n \in 1..r.days_back}
               /\ \A k1, k2 \in 1..Len(r.trace) :
                    r.trace[k1].unit = r.trace[k2].unit => k1 = k2
               /\ Len(r.trace) = r.days_back * Len(cfg.symbols) * Len(cfg.timeframes)

(* C10: a collected unit with fewer bars than a full day of its timeframe is   *)
(* kept with the bars it has, and a warning for it is in the log of the run.   *)
C10_PartialDayWarned ==
    \A p \in Invocations : \A k \in 1..Len(inv[p].trace) :
        LET e == inv[p].trace[k]
        IN  (e.rows > 0 /\ e.rows < BARS_PER_DAY[e.unit[2]])
            => /\ e.outcome = "FETCHED"
               /\ \E i \in 1..Len(inv[p].logs) : inv[p].logs[i][1] = "warning"

(* C11: when the append of the collector's batch fails, no unit whose rows     *)
(* were in the batch counts as successful in the final summary line, and the   *)
(* log reports no loaded rows.                                                 *)
C11_LoadFailureAccounted ==
    \A p \in Invocations :
        LET r == inv[p]
        IN  (r.pc = "done" /\ r.load = "failed")
            => /\ r.logs[Len(r.logs)][1] = "completed"
               /\ r.logs[Len(r.logs)][2]
                    = Cardinality({k \in 1..Len(r.trace) : r.trace[k].outcome = "SKIPPED"})
               /\ \A i \in 1..Len(r.logs) : r.logs[i][1] # "loaded"

(* C12: a run that has started the traversal of the grid and has stopped has   *)
(* emitted its final summary, and so has a collector run stopped by a fatal    *)
(* error.                                                                      *)
C12_SummaryAlwaysEmitted ==
    /\ (job.pc \in {"done", "crashed"} /\ job.dates # <<>>)
          => \E i \in 1..Len(job.out) : job.out[i][1] = "complete"
    /\ \A p \in Invocations :
          inv[p].pc \in {"done", "crashed"}
          => \E i \in 1..Len(inv[p].logs) : inv[p].logs[i][1] = "completed"

(* The position of the three loops after the unit at r *)
AfterUnit(r) ==
    IF r.ti < Len(cfg.timeframes) THEN <<"check", r.day_offset, r.si, r.ti + 1>>
    ELSE IF r.si < Len(cfg.symbols) THEN <<"check", r.day_offset, r.si + 1, 1>>
    ELSE IF r.day_offset < r.days_back THEN <<"day", r.day_offset + 1, r.si, r.ti>>
    ELSE <<"load", r.day_offset, r.si, r.ti>>

(* C13: every step in which the existence lookup of a unit raises ends that    *)
(* unit as a failure, not as SKIPPED: the success count, the batch, the calls  *)
(* to the exchange and the destination are unchanged, an error is logged, and  *)
(* the traversal stands at the next unit.                                      *)
C13_FailSafeLookup ==
    [][\A p \in Invocations :
          LET r == inv[p]
              r2 == inv'[p]
          IN  ( /\ Len(r2.trace) = Len(r.trace) + 1
                /\ r2.trace[Len(r2.trace)].existing = 0 - 1 )
              => /\ r2.trace[Len(r2.trace)].outcome = "FETCH_FAILED"
                 /\ r2.trace[Len(r2.trace)].rows = 0
                 /\ r2.trace[Len(r2.trace)].unit = Unit(r)
                 /\ r2.success_count = r.success_count
                 /\ r2.all_data = r.all_data
                 /\ r2.events = r.events
                 /\ store' = store
                 /\ r2.logs = Append(r.logs, <<"error">>)
                 /\ <<r2.pc, r2.day_offset, r2.si, r2.ti>> = AfterUnit(r)]_vars

C13_Witness ==
    \E p \in Invocations : \E k1, k2 \in 1..Len(inv[p].trace) :
        /\ k1 < k2
        /\ inv[p].trace[k1].existing = 0 - 1
        /\ inv[p].trace[k1].outcome = "FETCH_FAILED"
        /\ inv[p].trace[k2].outcome = "FETCHED"
        /\ inv[p].pc = "done"
        /\ inv[p].load = "ok"

(* Between any two calls of the kind in the events of a run there is a sleep *)
Delayed(events, call) ==
    \A i, j \in 1..Len(events) :
        (i < j /\ events[i][1] = call /\ events[j][1] = call)
        => \E k \in (i + 1)..(j - 1) : events[k][1] = "sleep"

(* C14: between any two consecutive upstream calls of a run, the downloads of  *)
(* the backfill job and the exchange queries of the collector alike, the run   *)
(* sleeps, whatever the earlier call gave.                                     *)
C14_DelayBetweenFetches ==
    /\ Delayed(job.events, "get")
    /\ \A p \in Invocations : Delayed(inv[p].events, "fetch")

(* The dates of the rows of a batch *)
BatchDates(frames) == {row.date : row \in Range(Concat(frames))}

(* C15: a finished run has invoked the loader once for every date with a       *)
(* fetched unit and for no other date, each time with the rows of that date    *)
(* only: the collector's invocations are as many as the dates in its batch,    *)
(* the job's as many as the dates with a parsed unit, each with the units of   *)
(* its date.                                                                   *)
C15_OneLoadPerDate ==
    /\ \A p \in Invocations :
          inv[p].pc = "done"
          => (IF inv[p].load = "none" THEN 0 ELSE 1)
                = Cardinality(BatchDates(inv[p].all_data))
    /\ job.pc = "done"
          => LET with == {d \in 1..Len(job.dates) :
                            \E k \in 1..Len(job.trace) :
                                job.trace[k].di = d /\ ~job.trace[k].none}
             IN  /\ Len(job.loads) = Cardinality(with)
                 /\ \A n \in 1..Len(job.loads) :
                       \E d \in with :
                          /\ job.loads[n].date = job.dates[d]
                          /\ job.loads[n].units
                               = Cardinality({k \in 1..Len(job.trace) :
                                                 job.trace[k].di = d /\ ~job.trace[k].none})

(* The columns of a klines line the claim calls numeric: open, high, low,      *)
(* close, volume, quote_volume, trades, taker_buy_base, taker_buy_quote        *)
NumericColumns == {2, 3, 4, 5, 6, 8, 9, 10, 11}

BadCells(f) == {ic \in (1..Len(f)) \X (1..12) : f[ic[1]][ic[2]] = <<>>}

(* A file of 12-column lines with exactly one bad cell, in a numeric column *)
SingleBadNumericCell(f) ==
    /\ f # <<>>
    /\ \A i \in 1..Len(f) : Len(f[i]) = 12
    /\ Cardinality(BadCells(f)) = 1
    /\ \A ic \in BadCells(f) : ic[2] \in NumericColumns

(* C16: a served archive file of 12-column lines with a single bad cell in a   *)
(* numeric column does not fail its unit: the download gives a frame with      *)
(* every line of the file, without the error line.                             *)
C16_BadCellCoerced ==
    \A k \in 1..Len(job.trace) : \A a \in Published(job.trace[k].unit) :
        (job.trace[k].served /\ SingleBadNumericCell(a.file))
        => /\ ~job.trace[k].none
           /\ ~job.trace[k].error
           /\ job.trace[k].line = "rows"
           /\ job.trace[k].rows = Len(a.file)

(* The visits of a run that ended LOADED or SKIPPED *)
Progress(r) ==
    {k \in 1..Len(r.trace) :
        \/ r.trace[k].outcome = "SKIPPED"
        \/ r.trace[k].outcome = "FETCHED" /\ r.load = "ok"}

(* C17: a finished collector run in which no unit ended LOADED or SKIPPED, a   *)
(* run over an empty grid included, returns a status that is neither the       *)
(* fully-successful one nor the partial-success one.                           *)
C17_NoProgressDistinct ==
    \A p \in Invocations :
        (inv[p].pc = "done" /\ Progress(inv[p]) = {})
        => inv[p].status \notin {StatusOk, StatusPartial}

(* The units whose rows an invocation has appended to the destination *)
Appended(r) ==
    IF r.pc = "done" /\ r.load = "ok"
    THEN {r.trace[k].unit : k \in {n \in 1..Len(r.trace) : r.trace[n].outcome = "FETCHED"}}
    ELSE {}

(* C18: of two invocations of the collector at work at the same time, at most  *)
(* one has appended the rows of any unit.                                      *)
C18_AtMostOneAppends ==
    \A p, q \in DOMAIN inv :
        p # q => Appended(inv[p]) \cap Appended(inv[q]) = {}

(* C19: in every state of a collector run, whatever the days argument,         *)
(* 0 <= success_count <= total_count, total_count is at most the units of      *)
(* seven days, a finished run has visited total_count units, and no visit      *)
(* adds more than one to success_count.                                        *)
C19_CountsWithinTotal ==
    \A p \in Invocations :
        LET r == inv[p]
        IN  /\ 0 <= r.success_count
            /\ r.success_count <= r.total_count
            /\ r.total_count <= DaysCap * Len(cfg.symbols) * Len(cfg.timeframes)
            /\ r.success_count <= Len(r.trace)
            /\ r.pc = "done" => r.total_count = Len(r.trace)

====
